---- MODULE Spec2Model ----
(***************************************************************************)
(* Conduit: the ingest pipeline of src/mcp/main.py (upload), the           *)
(* ActionRouter of src/mcp/router.py and the Redis event log of            *)
(* src/memory/memory.py (MemoryStore), as one state machine.               *)
(*                                                                         *)
(* Python values: a value that may be None is a sequence of length at most *)
(* one (None is <<>>, a present value v is <<v>>); a dict is a record and  *)
(* dict.get is Get/GetOr.                                                  *)
(***************************************************************************)
EXTENDS Integers, Sequences, FiniteSets, TLC

\* ---- bounds of the model ------------------------------------------------
NumRequests == 2      \* concurrent uploads in ConcSpec
MaxTime     == 2      \* the clock ticks at most this often
MaxCalls    == 2      \* direct calls of decide_and_execute in RouterSpec
MaxOps      == 3      \* direct MemoryStore appends in LogSpec

\* ---- Python values --------------------------------------------------------
None == <<>>

Some(v) == <<v>>

Get(d, k) == IF k \in DOMAIN d THEN Some(d[k]) ELSE None

GetOr(d, k, default) == IF k \in DOMAIN d THEN d[k] ELSE default

\* str() as an f-string applies it to an optional string
Str(o) == IF o = None THEN "None" ELSE o[1]

RECURSIVE lstrip(_, _)
lstrip(s, c) == IF Len(s) > 0 /\ Head(s) = c THEN lstrip(Tail(s), c) ELSE s

IsPrefix(a, b) == Len(a) <= Len(b) /\ SubSeq(b, 1, Len(a)) = a

\* ---- MemoryStore (src/memory/memory.py) -----------------------------------
\* json.dumps of an event dict: the members of the JSON object, in insertion
\* order; json.loads rebuilds the dict from the members (the last one of a
\* repeated name wins).
dumps(event) ==
    << <<"timestamp", event.timestamp>>, <<"source", event.source>>,
       <<"key", event.key>>, <<"value", event.value>> >>

Member(record, name) ==
    LET i == CHOOSE j \in DOMAIN record :
                 /\ record[j][1] = name
                 /\ \A l \in DOMAIN record : record[l][1] = name => l <= j
    IN record[i][2]

loads(record) ==
    [timestamp |-> Member(record, "timestamp"), source |-> Member(record, "source"),
     key |-> Member(record, "key"), value |-> Member(record, "value")]

\* an event with source and key exchanged
EventExchanged(t, source, key, value) ==
    [timestamp |-> t, source |-> key, key |-> source, value |-> value]

\* the event write() builds at time t
Event(t, source, key, value) ==
    [timestamp |-> t, source |-> source, key |-> key, value |-> value]

\* a push that another push overtakes: the record lands before the last one
rpush_overtaken(list, record) ==
    IF list = <<>> THEN <<record>>
    ELSE SubSeq(list, 1, Len(list) - 1) \o <<record, list[Len(list)]>>

\* a push that replaces the last record (a read-modify-write that lost one)
rpush_lost(list, record) ==
    IF list = <<>> THEN <<record>>
    ELSE SubSeq(list, 1, Len(list) - 1) \o <<record>>

\* a push to the left
lpush(list, record) == <<record>> \o list

\* client.rpush(list_key, ...): the list with the record pushed to the right
rpush(list, record) == Append(list, record)

\* read_all over the Redis list
read_all(list) == [i \in DOMAIN list |-> loads(list[i])]

\* a filter on the key in place of the source
read_by_source_on_key(list, source) ==
    SelectSeq(read_all(list), LAMBDA e : e["key"] = source)

read_by_source(list, source) == SelectSeq(read_all(list), LAMBDA e : e["source"] = source)

read_by_key(list, key) == SelectSeq(read_all(list), LAMBDA e : e["key"] = key)

\* a close without the try
close_propagates(conn, raised) == [connected |-> raised /\ conn, raises |-> raised]

\* close() (memory.py 58-65): client.close() in a try whose except passes;
\* raised says whether client.close() raised, raises whether close() does
close(conn, raised) == [connected |-> raised /\ conn, raises |-> FALSE]

\* ---- ActionRouter (src/mcp/router.py) -------------------------------------
max_retries == 2

\* the simulated sinks of src/mcp/main.py, by path
crm_escalation == [status |-> "escalate", detail |-> [message |-> "CRM ticket created."]]

risk_alert == [status |-> "escalate", detail |-> [message |-> "Risk alert logged."]]

Sink(path) == IF path = "/crm" THEN crm_escalation ELSE risk_alert

\* What one client.post can do: raise (no connection, timeout), or answer with
\* a status code and a body that resp.json() can or cannot parse.
Transport ==
    {[kind |-> "raise", error |-> e] : e \in {"ConnectError", "ReadTimeout"}}
    \cup {[kind |-> "response", status_code |-> c, parseable |-> p] :
              c \in {200, 404, 500}, p \in BOOLEAN}

\* the destination answered with a non-error status and a body that parses
Succeeds(t) == t.kind = "response" /\ t.status_code \in 200 .. 299 /\ t.parseable

\* resp.raise_for_status() raises on 4xx/5xx
is_error(status_code) == status_code >= 400 /\ status_code <= 599

\* str(e) of the exception an attempt ends with
StrError(t) ==
    IF t.kind = "raise" THEN t.error
    ELSE IF is_error(t.status_code) THEN "HTTPStatusError " \o ToString(t.status_code)
    ELSE "JSONDecodeError"

\* the locals of _post_with_retries before the loop
RouterLocals ==
    [path |-> "", payload |-> None, attempt |-> 0,
     http_status |-> None, response_body |-> None, last_error |-> None]

Outcome(status, target, http_status, response_body, error) ==
    [status |-> status, target |-> target, http_status |-> http_status,
     response_body |-> response_body, error |-> error]

\* Route without the branch for "database"
RouteWithoutDatabase(target) ==
    IF target = Some("crm") THEN [path |-> Some("/crm"), outcome |-> None]
    ELSE IF target = Some("risk_alert") THEN [path |-> Some("/risk_alert"), outcome |-> None]
    ELSE [path |-> None,
          outcome |-> Some(Outcome("error", target, None, None,
                                   Some("Unknown target: " \o Str(target))))]

\* Route with the two paths exchanged
RouteExchanged(target) ==
    IF target = Some("crm") THEN [path |-> Some("/risk_alert"), outcome |-> None]
    ELSE IF target = Some("risk_alert") THEN [path |-> Some("/crm"), outcome |-> None]
    ELSE IF target = Some("database")
    THEN [path |-> None,
          outcome |-> Some(Outcome("success", Some("database"), None,
                                   Some([message |-> "Archived to database."]), None))]
    ELSE [path |-> None,
          outcome |-> Some(Outcome("error", target, None, None,
                                   Some("Unknown target: " \o Str(target))))]

\* Route with the archive branch as the default
RouteDefaultArchive(target) ==
    IF target = Some("crm") THEN [path |-> Some("/crm"), outcome |-> None]
    ELSE IF target = Some("risk_alert") THEN [path |-> Some("/risk_alert"), outcome |-> None]
    ELSE [path |-> None,
          outcome |-> Some(Outcome("success", Some("database"), None,
                                   Some([message |-> "Archived to database."]), None))]

\* the branches of decide_and_execute on the target (router.py 58-82): the
\* path to POST to, or the outcome returned at once
Route(target) ==
    IF target = Some("crm") THEN [path |-> Some("/crm"), outcome |-> None]
    ELSE IF target = Some("risk_alert") THEN [path |-> Some("/risk_alert"), outcome |-> None]
    ELSE IF target = Some("database")
    THEN [path |-> None,
          outcome |-> Some(Outcome("success", Some("database"), None,
                                   Some([message |-> "Archived to database."]), None))]
    ELSE [path |-> None,
          outcome |-> Some(Outcome("error", target, None, None,
                                   Some("Unknown target: " \o Str(target))))]

\* Attempt without resp.json(): any non-error status is a success
AttemptWithoutBody(l, t) ==
    LET status == IF t.kind = "response" THEN Some(t.status_code) ELSE l.http_status
    IN  IF t.kind = "response" /\ ~is_error(t.status_code)
        THEN [locals  |-> [l EXCEPT !.http_status = status],
              returns |-> Some(Outcome("success", Some(lstrip(l.path, "/")), status,
                                       None, None))]
        ELSE [locals  |-> [l EXCEPT !.http_status = status,
                                    !.last_error = Some(StrError(t))],
              returns |-> None]

\* Attempt without the return in the try
AttemptNeverReturns(l, t) ==
    LET status == IF t.kind = "response" THEN Some(t.status_code) ELSE l.http_status
    IN  IF t.kind = "response" /\ ~is_error(t.status_code) /\ t.parseable
        THEN [locals  |-> [l EXCEPT !.http_status = status,
                                    !.response_body = Some(Sink(l.path))],
              returns |-> None]
        ELSE [locals  |-> [l EXCEPT !.http_status = status,
                                    !.last_error = Some(StrError(t))],
              returns |-> None]

\* the body of the try of one loop iteration, for what the transport did
\* (router.py 105-118): the locals afterwards and the outcome returned, if any
Attempt(l, t) ==
    LET status == IF t.kind = "response" THEN Some(t.status_code) ELSE l.http_status
    IN  IF t.kind = "response" /\ ~is_error(t.status_code) /\ t.parseable
        THEN [locals  |-> [l EXCEPT !.http_status = status,
                                    !.response_body = Some(Sink(l.path))],
              returns |-> Some(Outcome("success", Some(lstrip(l.path, "/")), status,
                                       Some(Sink(l.path)), None))]
        ELSE [locals  |-> [l EXCEPT !.http_status = status,
                                    !.last_error = Some(StrError(t))],
              returns |-> None]

\* an except clause for the errors of the transport only
except_HTTPError(t) == t.kind = "raise" \/ is_error(t.status_code)

\* except Exception (router.py 117): whether the clause catches what the
\* attempt ended with; every error of client.post, raise_for_status and
\* resp.json is an Exception
except_Exception(t) == TRUE

\* no backoff after the attempt that has no retry
backoff_skips_last(attempt) == IF attempt < max_retries THEN 1 ELSE 0

\* a backoff that doubles
backoff_doubling(attempt) == 2 ^ attempt

\* the argument of asyncio.sleep in the iteration attempt (router.py 120)
backoff_seconds(attempt) == 1

\* a payload stamped again for the attempt
post_json_rebuilt(l, clock) == [l.payload[1] EXCEPT !.timestamp = clock]

\* the json argument of client.post in an iteration (router.py 106): the
\* payload passed to _post_with_retries, whatever the time of the attempt
post_json(l, clock) == l.payload[1]

\* the loop over range(max_retries)
InRangeOneLess(attempt) == attempt < max_retries

\* for attempt in range(max_retries + 1) (router.py 104)
InRange(attempt) == attempt < max_retries + 1

\* a return after the loop that goes by the status code kept
ExhaustedOnStatus(l) ==
    Outcome(IF l.http_status # None /\ ~is_error(l.http_status[1]) THEN "success" ELSE "error",
            Some(lstrip(l.path, "/")), l.http_status, l.response_body, l.last_error)

\* the return after the loop (router.py 123-129)
Exhausted(l) ==
    Outcome("error", Some(lstrip(l.path, "/")), l.http_status, l.response_body, l.last_error)

\* ---- state ------------------------------------------------------------------
Requests == 1 .. NumRequests

VARIABLES
    log,            \* the Redis list memory:events (serialised events)
    now,            \* datetime.utcnow()
    connected,      \* the Redis client holds a connection
    last_write,     \* the last event pushed, with the length before (observation)
    last_read,      \* what the last read of the store returned (observation)
    last_close,     \* how the last close of the store ended (observation)
    pc,             \* per request: position in upload / decide_and_execute
    file,           \* per request: the uploaded file
    metadata,       \* per request: the classifier's result
    result,         \* per request: the extractor's result
    suggestion,     \* per request: the argument of decide_and_execute
    router,         \* per request: the locals of _post_with_retries
    action_outcome, \* per request: what decide_and_execute returned
    response,       \* per request: what the client got
    trace,          \* per request: the calls made so far (observation)
    serving,        \* the app is between the two halves of lifespan
    client          \* the router's httpx.AsyncClient: "open" or "closed"

vars == <<log, now, connected, last_write, last_read, last_close, pc, file, metadata, result,
          suggestion, router, action_outcome, response, trace, serving, client>>

appVars == <<serving, client>>

storeVars == <<log, connected, last_write, last_read, last_close>>

uploadVars == <<file, metadata, result, response>>

routerVars == <<suggestion, router, action_outcome>>

NoTrace ==
    [routes     |-> 0,      \* calls of decide_and_execute
     posts      |-> 0,      \* client.post calls of the current decide_and_execute
     failed     |-> 0,      \* ... of which ended in the except clause
     first_ok   |-> 0,      \* ... the first one the destination answered well
     last_ok    |-> FALSE,  \* ... whether the destination answered the last one well
     last_status |-> None,  \* ... the status code of the last one, if it had one
     sleeps     |-> 0,      \* asyncio.sleep calls of the current decide_and_execute
     slept      |-> <<>>,   \* ... the seconds each of them slept
     posted     |-> {},     \* the paths the current decide_and_execute POSTed to
     payloads   |-> <<>>,   \* ... the payload each of its POSTs carried
     classified |-> 0,      \* calls of the classifier's process
     archived   |-> <<>>,   \* outcomes returned for target "database"
     extractors |-> <<>>,   \* the agents whose process was called
     appended   |-> <<>>,   \* positions in the list of the events pushed
     raised     |-> <<>>]   \* the collaborators that raised into upload

Init ==
    /\ log = <<>>
    /\ now = 0
    /\ connected = FALSE
    /\ last_write = None
    /\ last_read = None
    /\ last_close = None
    /\ pc = [r \in Requests |-> "idle"]
    /\ file = [r \in Requests |-> None]
    /\ metadata = [r \in Requests |-> None]
    /\ result = [r \in Requests |-> None]
    /\ suggestion = [r \in Requests |-> None]
    /\ router = [r \in Requests |-> RouterLocals]
    /\ action_outcome = [r \in Requests |-> None]
    /\ response = [r \in Requests |-> None]
    /\ trace = [r \in Requests |-> NoTrace]
    /\ serving = TRUE
    /\ client = "open"

\* time passes
Tick ==
    /\ now < MaxTime
    /\ now' = now + 1
    /\ UNCHANGED <<appVars, storeVars, pc, uploadVars, routerVars, trace>>

\* ---- decide_and_execute -----------------------------------------------------
\* decide_and_execute(s) up to its first await or its return (router.py 49-85)
decide_and_execute(r, s) ==
    LET action  == Get(s, "action")
        target  == Get(s, "target")
        payload == [action |-> action, timestamp |-> now]
        route   == Route(target)
    IN  /\ suggestion' = [suggestion EXCEPT ![r] = Some(s)]
        /\ action_outcome' = [action_outcome EXCEPT ![r] = route.outcome]
        /\ IF route.outcome = None
           THEN /\ router' = [router EXCEPT ![r] =
                       [RouterLocals EXCEPT !.path = route.path[1], !.payload = Some(payload)]]
                /\ pc' = [pc EXCEPT ![r] = "post"]
           ELSE /\ router' = [router EXCEPT ![r] = RouterLocals]
                /\ pc' = [pc EXCEPT ![r] = "returned"]
        /\ trace' = [trace EXCEPT
               ![r].routes = @ + 1, ![r].posts = 0, ![r].failed = 0,
               ![r].first_ok = 0, ![r].sleeps = 0,
               ![r].slept = <<>>, ![r].posted = {}, ![r].payloads = <<>>,
               ![r].last_ok = FALSE, ![r].last_status = None,
               ![r].archived = IF target = Some("database")
                               THEN Append(@, route.outcome[1]) ELSE @]

\* one client.post and what follows it up to the return or the sleep
post(r, E) ==
    /\ pc[r] = "post"
    /\ \E t \in E.transport :
         LET a == Attempt(router[r], t)
         IN  /\ router' = [router EXCEPT ![r] = a.locals]
             /\ IF a.returns # None
                THEN /\ action_outcome' = [action_outcome EXCEPT ![r] = a.returns]
                     /\ pc' = [pc EXCEPT ![r] = "returned"]
                ELSE /\ UNCHANGED action_outcome
                     /\ pc' = [pc EXCEPT ![r] =
                               IF except_Exception(t) THEN "sleep" ELSE "raised"]
             /\ trace' = [trace EXCEPT
                    ![r].posts = @ + 1,
                    ![r].posted = @ \cup {router[r].path},
                    ![r].payloads = Append(@, post_json(router[r], now)),
                    ![r].failed = IF a.returns = None THEN @ + 1 ELSE @,
                    ![r].first_ok = IF @ = 0 /\ Succeeds(t)
                                    THEN trace[r].posts + 1 ELSE @,
                    ![r].last_ok = Succeeds(t),
                    ![r].last_status = IF t.kind = "response"
                                       THEN Some(t.status_code) ELSE None]
    /\ UNCHANGED <<appVars, storeVars, now, uploadVars, suggestion>>

\* asyncio.sleep(1), then the next iteration or the return after the loop
backoff(r) ==
    /\ pc[r] = "sleep"
    /\ LET l == [router[r] EXCEPT !.attempt = @ + 1]
       IN  /\ router' = [router EXCEPT ![r] = l]
           /\ IF InRange(l.attempt)
              THEN /\ pc' = [pc EXCEPT ![r] = "post"]
                   /\ UNCHANGED action_outcome
              ELSE /\ pc' = [pc EXCEPT ![r] = "returned"]
                   /\ action_outcome' = [action_outcome EXCEPT ![r] = Some(Exhausted(l))]
    /\ trace' = [trace EXCEPT ![r].sleeps = @ + 1,
                              ![r].slept = Append(@, backoff_seconds(router[r].attempt))]
    /\ UNCHANGED <<appVars, storeVars, now, uploadVars, suggestion>>

\* ---- RouterSpec: decide_and_execute called directly ------------------------
Suggestions ==
    {[action |-> a, target |-> t] :
         a \in {"x", "escalate"},
         t \in {"crm", "risk_alert", "database", "bogus", "", "/crm", "None"}}
    \cup {[action |-> "x"], [target |-> "crm"], [target |-> "database"]}

\* a call by a caller that holds a router it has not shut down
Call(r) ==
    /\ pc[r] = "idle"
    /\ client = "open"
    /\ trace[r].routes < MaxCalls
    /\ \E s \in Suggestions : decide_and_execute(r, s)
    /\ UNCHANGED <<appVars, storeVars, now, uploadVars>>

\* the caller takes the outcome
Return(r) ==
    /\ pc[r] = "returned"
    /\ pc' = [pc EXCEPT ![r] = "idle"]
    /\ UNCHANGED <<appVars, storeVars, now, uploadVars, routerVars, trace>>

\* shutdown() (router.py 131-135): await self.client.aclose()
shutdown == client' = "closed"

\* the caller shuts the router down, once, with no call in flight
Shutdown(r) ==
    /\ pc[r] = "idle"
    /\ client = "open"
    /\ shutdown
    /\ UNCHANGED <<serving, storeVars, now, pc, uploadVars, routerVars, trace>>

RouterNext ==
    \/ Tick
    \/ Call(1)
    \/ post(1, [transport |-> Transport])
    \/ backoff(1)
    \/ Return(1)
    \/ Shutdown(1)

RouterSpec == Init /\ [][RouterNext]_vars

\* the event loop resumes a call whose await is over: client.post responds,
\* raises or times out (timeout=10.0, router.py 39), asyncio.sleep(1) ends
RouterLiveSpec ==
    /\ RouterSpec
    /\ WF_vars(post(1, [transport |-> Transport]))
    /\ WF_vars(backoff(1))

\* ---- properties of the router ---------------------------------------------------
Target(r) == Get(suggestion[r][1], "target")

HttpTarget(r) == suggestion[r] # None /\ Target(r) \in {Some("crm"), Some("risk_alert")}

InCall(r) == pc[r] \in {"post", "sleep"}

\* C1: a call for target crm or risk_alert never makes more than
\* max_retries + 1 POSTs, and when it has returned and every POST it made
\* failed, it made exactly max_retries + 1 = 3 of them and returned status
\* "error".
C1_AlwaysFailing ==
    \A r \in Requests :
        /\ trace[r].posts <= max_retries + 1
        /\ (pc[r] = "returned" /\ HttpTarget(r) /\ trace[r].failed = trace[r].posts)
               => /\ trace[r].posts = max_retries + 1
                  /\ trace[r].posts = 3
                  /\ action_outcome[r] # None
                  /\ action_outcome[r][1].status = "error"

C1_Witness ==
    \E r \in Requests :
        /\ pc[r] = "returned" /\ HttpTarget(r)
        /\ trace[r].failed = 3 /\ trace[r].posts = 3
        /\ action_outcome[r][1].status = "error"

\* C2: once the destination has answered attempt k well (a non-error status
\* and a body that parses) for the first time, the call has returned status
\* "success" with exactly k POSTs made (k <= max_retries + 1), and it makes
\* no further POST.
C2_FirstSuccess ==
    \A r \in Requests :
        trace[r].first_ok > 0
            => /\ trace[r].first_ok <= max_retries + 1
               /\ trace[r].posts = trace[r].first_ok
               /\ ~InCall(r)
               /\ action_outcome[r] # None
               /\ action_outcome[r][1].status = "success"

C2_Witness ==
    \E r \in Requests :
        /\ pc[r] = "returned"
        /\ trace[r].first_ok = max_retries + 1
        /\ trace[r].failed = max_retries
        /\ action_outcome[r][1].status = "success"

\* C3: every call with target "database", whatever the action, has returned
\* at once with status "success", target "database" and no http_status,
\* without any POST, and all such calls returned the same outcome.
C3_Database ==
    \A r \in Requests :
        /\ \A i \in DOMAIN trace[r].archived :
               /\ trace[r].archived[i].status = "success"
               /\ trace[r].archived[i].target = Some("database")
               /\ trace[r].archived[i].http_status = None
               /\ trace[r].archived[i] = trace[r].archived[1]
        /\ (suggestion[r] # None /\ Target(r) = Some("database"))
               => /\ ~InCall(r)
                  /\ trace[r].posts = 0
                  /\ trace[r].archived # <<>>
                  /\ action_outcome[r] = Some(trace[r].archived[Len(trace[r].archived)])

C3_Witness ==
    \E r \in Requests :
        /\ pc[r] = "returned"
        /\ Target(r) = Some("database")
        /\ Get(suggestion[r][1], "action") = None
        /\ Len(trace[r].archived) >= 2

\* C4: every call whose target is missing or none of crm, risk_alert and
\* database has returned at once with status "error", the error text
\* "Unknown target: <target>", no http_status and no response_body, without
\* any POST.
C4_UnknownTarget ==
    \A r \in Requests :
        (suggestion[r] # None
         /\ Target(r) \notin {Some("crm"), Some("risk_alert"), Some("database")})
            => /\ ~InCall(r)
               /\ trace[r].posts = 0
               /\ action_outcome[r] # None
               /\ action_outcome[r][1].status = "error"
               /\ action_outcome[r][1].error = Some("Unknown target: " \o Str(Target(r)))
               /\ Target(r) = Some("bogus")
                      => action_outcome[r][1].error = Some("Unknown target: bogus")
               /\ action_outcome[r][1].http_status = None
               /\ action_outcome[r][1].response_body = None

C4_Witness ==
    \E r \in Requests :
        /\ pc[r] = "returned"
        /\ Target(r) = None
        /\ action_outcome[r][1].error = Some("Unknown target: None")

\* C13: every outcome decide_and_execute has returned has status "success" or
\* "error", and it is "success" exactly when the target was "database" and no
\* POST was made, or the last POST made was answered with a non-error status
\* and a body that parses.
C13_SuccessIff ==
    \A r \in Requests :
        action_outcome[r] # None
            => /\ action_outcome[r][1].status \in {"success", "error"}
               /\ (action_outcome[r][1].status = "success")
                      <=> (\/ Target(r) = Some("database") /\ trace[r].posts = 0
                           \/ trace[r].posts > 0 /\ trace[r].last_ok)

\* the last of three POSTs was answered 200 with a body that does not parse
C13_Witness ==
    \E r \in Requests :
        /\ pc[r] = "returned"
        /\ trace[r].posts = max_retries + 1
        /\ trace[r].last_status = Some(200)
        /\ ~trace[r].last_ok
        /\ action_outcome[r][1].status = "error"

\* C14: the http_status of every outcome returned after at least one POST is
\* the status code of the last POST made, and absent when the last POST ended
\* without a status code (it raised or timed out).
C14_LastStatus ==
    \A r \in Requests :
        (action_outcome[r] # None /\ trace[r].posts > 0)
            => action_outcome[r][1].http_status = trace[r].last_status

\* C20: every outcome with status "success" returned after a POST carries the
\* body of the sink, whose status is "success" and whose detail has a message.
C20_SinkBody ==
    \A r \in Requests :
        (action_outcome[r] # None /\ trace[r].posts > 0
         /\ action_outcome[r][1].status = "success")
            => /\ action_outcome[r][1].response_body # None
               /\ action_outcome[r][1].response_body[1].status = "success"
               /\ "message" \in DOMAIN action_outcome[r][1].response_body[1].detail

\* C21: no call of decide_and_execute ends by raising, every outcome returned
\* has status "success" or "error", and every call that waits on a POST or on
\* a backoff returns eventually, whatever the suggestion and however each
\* attempt ends (an answer that parses or not, an error status, an exception,
\* a timeout).
C21_Terminates ==
    /\ [](\A r \in Requests :
             /\ pc[r] # "raised"
             /\ pc[r] = "returned" => action_outcome[r] # None
             /\ action_outcome[r] # None
                    => action_outcome[r][1].status \in {"success", "error"})
    /\ \A r \in Requests : (pc[r] \in {"post", "sleep"}) ~> (pc[r] = "returned")

\* a call returned after an answer that did not parse and a last attempt that
\* timed out
C21_Witness ==
    \E r \in Requests :
        /\ pc[r] = "returned"
        /\ trace[r].posts = max_retries + 1
        /\ trace[r].last_status = None
        /\ action_outcome[r][1].http_status = Some(200)
        /\ action_outcome[r][1].error = Some("ReadTimeout")
        /\ action_outcome[r][1].status = "error"

\* C24: every backoff of a call sleeps 1 second; an attempt starts only when
\* every failed attempt before it has been followed by one backoff; a failed
\* attempt is followed by one; and a call whose attempt succeeded has slept
\* once per failed attempt before it and not after the success.
C24_Backoff ==
    \A r \in Requests :
        /\ \A i \in DOMAIN trace[r].slept : trace[r].slept[i] = 1
        /\ Len(trace[r].slept) = trace[r].sleeps
        /\ Len(trace[r].slept) <= trace[r].failed
        /\ pc[r] = "post" => /\ trace[r].failed = trace[r].posts
                             /\ Len(trace[r].slept) = trace[r].failed
        /\ pc[r] = "sleep" => trace[r].failed = Len(trace[r].slept) + 1
        /\ trace[r].first_ok > 0 => /\ trace[r].failed = trace[r].posts - 1
                                    /\ Len(trace[r].slept) = trace[r].failed

\* a success on the third attempt, after two backoffs of 1 second
C24_Witness ==
    \E r \in Requests :
        /\ pc[r] = "returned"
        /\ trace[r].first_ok = max_retries + 1
        /\ trace[r].slept = <<1, 1>>

\* the last POST was answered with a non-error status and a body that does
\* not parse
Unparseable(r) ==
    /\ trace[r].posts > 0
    /\ trace[r].last_status # None
    /\ ~(trace[r].last_status[1] >= 400)
    /\ ~trace[r].last_ok

\* C25: when the last POST of a call was answered with a non-error status and
\* a body that does not parse, the call has not succeeded: that attempt counts
\* as failed, the call is in the backoff after it, or starts the next attempt
\* after that backoff, or it was the last of the max_retries + 1 attempts and
\* the outcome has status "error" and that status code as http_status.
C25_Unparseable ==
    \A r \in Requests :
        Unparseable(r)
            => /\ trace[r].failed = trace[r].posts
               /\ trace[r].first_ok = 0
               /\ pc[r] \in {"sleep", "post", "returned", "idle"}
               /\ pc[r] = "sleep" => Len(trace[r].slept) = trace[r].posts - 1
               /\ pc[r] = "post" => /\ Len(trace[r].slept) = trace[r].posts
                                    /\ trace[r].posts < max_retries + 1
               /\ pc[r] \in {"returned", "idle"}
                      => /\ trace[r].posts = max_retries + 1
                         /\ action_outcome[r] # None
                         /\ action_outcome[r][1].status = "error"
                         /\ action_outcome[r][1].http_status = trace[r].last_status

\* three answers with status 200 and a body that does not parse
C25_Witness ==
    \E r \in Requests :
        /\ pc[r] = "returned"
        /\ Unparseable(r)
        /\ trace[r].failed = max_retries + 1
        /\ action_outcome[r][1].http_status = Some(200)
        /\ action_outcome[r][1].error = Some("JSONDecodeError")
        /\ action_outcome[r][1].response_body = None

\* C31: every POST of a call carries the payload built when the call started:
\* a dict with the keys action and timestamp and no other, whose action is the
\* action of the suggestion (None when it has none) and whose timestamp is one
\* time not later than the clock; all the POSTs of a call carry the same
\* payload with the same timestamp; and no step of a call in progress changes
\* the payload.
C31_Payload ==
    /\ [](\A r \in Requests :
             /\ Len(trace[r].payloads) = trace[r].posts
             /\ \A i \in DOMAIN trace[r].payloads :
                    /\ DOMAIN trace[r].payloads[i] = {"action", "timestamp"}
                    /\ trace[r].payloads[i].action = Get(suggestion[r][1], "action")
                    /\ trace[r].payloads[i].timestamp <= now
                    /\ trace[r].payloads[i] = trace[r].payloads[1]
                    /\ Some(trace[r].payloads[i]) = router[r].payload)
    /\ [][\A r \in Requests :
             pc[r] \in {"post", "sleep"} => router'[r].payload = router[r].payload]_vars

\* three POSTs with the payload of time 0 while the clock went on to 2, for a
\* suggestion without an action
C31_Witness ==
    \E r \in Requests :
        /\ pc[r] = "returned"
        /\ Len(trace[r].payloads) = max_retries + 1
        /\ trace[r].payloads[3] = [action |-> None, timestamp |-> 0]
        /\ trace[r].last_status = Some(500)
        /\ now = 2

C29_FixedRouting ==
    \A r \in Requests :
        suggestion[r] # None
            => /\ Target(r) = Some("crm") => trace[r].posted \subseteq {"/crm"}
               /\ Target(r) = Some("risk_alert") => trace[r].posted \subseteq {"/risk_alert"}
               /\ ~HttpTarget(r) => trace[r].posted = {}
               /\ trace[r].posts > 0 => trace[r].posted # {}
               /\ action_outcome[r] # None => action_outcome[r][1].target = Target(r)

\* three POSTs to /risk_alert
C29_Witness ==
    \E r \in Requests :
        /\ pc[r] = "returned"
        /\ trace[r].posts = max_retries + 1
        /\ trace[r].posted = {"/risk_alert"}
        /\ action_outcome[r][1].target = Some("risk_alert")

\* ---- MemoryStore operations --------------------------------------------------
\* write(source, key, value) when rpush succeeds (memory.py 30-37)
write(source, key, value) ==
    /\ log' = rpush(log, dumps(Event(now, source, key, value)))
    /\ connected' = TRUE
    /\ last_write' = Some([source |-> source, key |-> key, value |-> value,
                           before |-> Len(read_all(log)),
                           n |-> IF last_write = None THEN 1 ELSE last_write[1].n + 1])
    /\ UNCHANGED <<last_read, last_close>>

\* a read of the store by op(arg) that returned result
Read(op, arg, res) ==
    /\ last_read' = Some([op |-> op, arg |-> arg, result |-> res,
                          n |-> IF last_write = None THEN 0 ELSE last_write[1].n])
    /\ connected' = TRUE
    /\ UNCHANGED <<log, last_write, last_close>>

\* ---- LogSpec: the MemoryStore called directly -----------------------------
Sources == {"classifier", "router"}

Keys == {"metadata", "action"}

\* the events written: every source with every key, and as values a
\* classifier result, an outcome as upload writes it and dicts with an action
LogInputs ==
    {<<"classifier", "metadata", [format |-> "JSON"]>>,
     <<"classifier", "action", [status |-> "error"]>>,
     <<"router", "metadata", [action |-> "escalate"]>>,
     <<"router", "action", [action |-> "escalate", status |-> "success"]>>}

Write ==
    /\ Len(log) < MaxOps
    /\ \E e \in LogInputs : write(e[1], e[2], e[3])
    /\ UNCHANGED <<appVars, now, pc, uploadVars, routerVars, trace>>

\* rpush raises (the store is unreachable): nothing is pushed
WriteRaises ==
    /\ connected' = FALSE
    /\ UNCHANGED <<appVars, log, last_write, last_read, last_close, now, pc, uploadVars,
                   routerVars, trace>>

ReadAll ==
    /\ Read("read_all", "", read_all(log))
    /\ UNCHANGED <<appVars, now, pc, uploadVars, routerVars, trace>>

ReadBySource ==
    /\ \E s \in Sources \cup {"email_agent"} : Read("read_by_source", s, read_by_source(log, s))
    /\ UNCHANGED <<appVars, now, pc, uploadVars, routerVars, trace>>

ReadByKey ==
    /\ \E k \in Keys \cup {"extraction"} : Read("read_by_key", k, read_by_key(log, k))
    /\ UNCHANGED <<appVars, now, pc, uploadVars, routerVars, trace>>

\* GET /audit (main.py 92-98)
audit(list) == read_by_key(list, "action")

\* GET /audit/store (main.py 100-107)
audit_store(list) ==
    SelectSeq(read_by_key(list, "action"),
              LAMBDA event : Get(event["value"], "action") = Some("store"))

\* GET /audit/alert (main.py 109-116)
audit_alert(list) ==
    SelectSeq(read_by_key(list, "action"),
              LAMBDA event : Get(event["value"], "action") = Some("alert"))

\* a filter over the events of every key
audit_escalate_all_keys(list) ==
    SelectSeq(read_all(list),
              LAMBDA event : Get(event["value"], "action") = Some("escalate"))

\* GET /audit/escalate (main.py 118-125)
audit_escalate(list) ==
    SelectSeq(read_by_key(list, "action"),
              LAMBDA event : Get(event["value"], "action") = Some("escalate"))

\* GET /audit/log (main.py 127-134)
audit_log(list) ==
    SelectSeq(read_by_key(list, "action"),
              LAMBDA event : Get(event["value"], "action") = Some("log"))

Audit ==
    /\ Read("audit", "", audit(log))
    /\ UNCHANGED <<appVars, now, pc, uploadVars, routerVars, trace>>

AuditStore ==
    /\ Read("audit_kind", "store", audit_store(log))
    /\ UNCHANGED <<appVars, now, pc, uploadVars, routerVars, trace>>

AuditAlert ==
    /\ Read("audit_kind", "alert", audit_alert(log))
    /\ UNCHANGED <<appVars, now, pc, uploadVars, routerVars, trace>>

AuditEscalate ==
    /\ Read("audit_kind", "escalate", audit_escalate(log))
    /\ UNCHANGED <<appVars, now, pc, uploadVars, routerVars, trace>>

AuditLog ==
    /\ Read("audit_kind", "log", audit_log(log))
    /\ UNCHANGED <<appVars, now, pc, uploadVars, routerVars, trace>>

\* a call of close() while client.close() raises or not
Closing ==
    /\ \E raised \in BOOLEAN :
         LET c == close(connected, raised)
         IN  /\ connected' = c.connected
             /\ last_close' = Some([client_raised |-> raised, raises |-> c.raises])
    /\ UNCHANGED <<log, last_write, last_read>>

Close ==
    /\ Closing
    /\ UNCHANGED <<appVars, now, pc, uploadVars, routerVars, trace>>

LogNext ==
    \/ Write
    \/ WriteRaises
    \/ ReadAll
    \/ ReadBySource
    \/ ReadByKey
    \/ Audit
    \/ AuditStore
    \/ AuditAlert
    \/ AuditEscalate
    \/ AuditLog
    \/ Close

LogSpec == Init /\ [][LogNext]_vars

\* ---- properties of the store -------------------------------------------------
\* C7: the store is append-only: in every step the events read before are a
\* prefix of the events read after (none changed, reordered or removed), the
\* list grows by at most one event and only in a write, and a read or a close
\* leaves the list as it is.
C7_AppendOnly ==
    [][/\ IsPrefix(read_all(log), read_all(log'))
       /\ IsPrefix(log, log')
       /\ Len(log') <= Len(log) + 1
       /\ log' # log => (last_write' # last_write /\ last_read' = last_read)
       /\ last_read' # last_read => log' = log
       /\ (connected' # connected /\ last_write' = last_write) => log' = log]_vars

\* a read that returned fewer events than the list holds now, after a close
C7_Witness ==
    /\ Len(log) >= 2
    /\ last_read # None
    /\ last_read[1].op = "read_all"
    /\ Len(last_read[1].result) = 1
    /\ ~connected

\* C8: a read_all made after a write, with no other write in between, returns
\* one event more than the store held before the write, and its last event
\* has the source, the key and the value written.
C8_RoundTrip ==
    (/\ last_write # None
     /\ last_read # None
     /\ last_read[1].op = "read_all"
     /\ last_read[1].n = last_write[1].n)
        => LET all == last_read[1].result
           IN  /\ Len(all) = last_write[1].before + 1
               /\ all[Len(all)].source = last_write[1].source
               /\ all[Len(all)].key = last_write[1].key
               /\ all[Len(all)].value = last_write[1].value

C8_Witness ==
    /\ last_write # None
    /\ last_read # None
    /\ last_read[1].op = "read_all"
    /\ last_read[1].n = last_write[1].n
    /\ last_write[1].before = 2
    /\ Len(last_read[1].result) = 3

\* the events of a sequence whose field has the value, in their order
RECURSIVE Restricted(_, _, _)
Restricted(events, field, v) ==
    IF events = <<>> THEN <<>>
    ELSE IF Head(events)[field] = v
         THEN <<Head(events)>> \o Restricted(Tail(events), field, v)
         ELSE Restricted(Tail(events), field, v)

AllSources == Sources \cup {"email_agent", "json_agent", "pdf_agent", "metadata"}

AllKeys == Keys \cup {"extraction", "router"}

\* C9: in every state of the store, read_by_source(s) is read_all restricted to
\* the events with source s and read_by_key(k) is read_all restricted to the
\* events with key k, in append order, for every s and k; and so is what a
\* read returned.
C9_FilteredReads ==
    /\ \A s \in AllSources : read_by_source(log, s) = Restricted(read_all(log), "source", s)
    /\ \A k \in AllKeys : read_by_key(log, k) = Restricted(read_all(log), "key", k)
    /\ (last_read # None /\ last_read[1].op = "read_by_source"
        /\ last_read[1].n = IF last_write = None THEN 0 ELSE last_write[1].n)
           => last_read[1].result = Restricted(read_all(log), "source", last_read[1].arg)
    /\ (last_read # None /\ last_read[1].op = "read_by_key"
        /\ last_read[1].n = IF last_write = None THEN 0 ELSE last_write[1].n)
           => last_read[1].result = Restricted(read_all(log), "key", last_read[1].arg)

\* a read by source that returned some of the events and left out others
C9_Witness ==
    /\ last_read # None
    /\ last_read[1].op = "read_by_source"
    /\ last_read[1].n = IF last_write = None THEN 0 ELSE last_write[1].n
    /\ Len(last_read[1].result) = 2
    /\ Len(log) = 3
    /\ Len(read_by_key(log, "action")) = 1

\* ---- ClassifierAgent (src/agents/classifier.py) ---------------------------
Uppercase == <<"A", "B", "C", "D", "E", "F", "G", "H", "I", "J", "K", "L", "M",
               "N", "O", "P", "Q", "R", "S", "T", "U", "V", "W", "X", "Y", "Z">>

Lowercase == <<"a", "b", "c", "d", "e", "f", "g", "h", "i", "j", "k", "l", "m",
               "n", "o", "p", "q", "r", "s", "t", "u", "v", "w", "x", "y", "z">>

LowerChar(c) ==
    IF \E i \in DOMAIN Uppercase : Uppercase[i] = c
    THEN Lowercase[CHOOSE i \in DOMAIN Uppercase : Uppercase[i] = c]
    ELSE c

RECURSIVE lower(_)
lower(s) == IF Len(s) = 0 THEN "" ELSE LowerChar(Head(s)) \o lower(Tail(s))

RECURSIVE Contains(_, _)
Contains(s, c) == Len(s) > 0 /\ (Head(s) = c \/ Contains(Tail(s), c))

\* s.rsplit(c, 1)[-1]: what follows the last c, all of s when there is none
RECURSIVE rsplit_last(_, _)
rsplit_last(s, c) ==
    IF ~Contains(s, c) THEN s
    ELSE IF Head(s) = c /\ ~Contains(Tail(s), c) THEN Tail(s)
    ELSE rsplit_last(Tail(s), c)

\* the extension compared as it is written
_format_case_sensitive(filename) ==
    LET ext == IF Contains(filename, ".") THEN rsplit_last(filename, ".") ELSE ""
    IN  IF ext = "json" THEN "JSON"
        ELSE IF ext = "pdf" THEN "PDF"
        ELSE IF ext \in {"eml", "txt", "email"} THEN "Email"
        ELSE "Unknown"

\* _format_from_filename (classifier.py 151-159)
_format_from_filename(filename) ==
    LET ext == IF Contains(filename, ".") THEN rsplit_last(lower(filename), ".") ELSE ""
    IN  IF ext = "json" THEN "JSON"
        ELSE IF ext = "pdf" THEN "PDF"
        ELSE IF ext \in {"eml", "txt", "email"} THEN "Email"
        ELSE "Unknown"

\* ClassifierAgent.process when it returns: the intent is what the keyword
\* scores or the language model say
classifier_process(filename, intent) ==
    [source |-> "classifier", format |-> _format_from_filename(filename), intent |-> intent]

\* ---- EmailAgent (src/agents/email_agent.py) -------------------------------
\* an escalation only when the mail is both urgent and angry
email_suggestion_both(urgency, tone) ==
    IF urgency = "high" /\ tone = "angry"
    THEN [action |-> "escalate", target |-> "crm"]
    ELSE [action |-> "log", target |-> "database"]

\* the suggestion of process for the urgency and tone it computed (85-89)
email_suggestion(urgency, tone) ==
    IF urgency = "high" \/ tone = "angry"
    THEN [action |-> "escalate", target |-> "crm"]
    ELSE [action |-> "log", target |-> "database"]

\* process when it returns; sender, subject, body_summary and thread_id are
\* copied from the message and decide nothing
email_process(urgency, tone) ==
    [source |-> "email_agent",
     data |-> [urgency |-> urgency, tone |-> tone],
     action_suggestion |-> email_suggestion(urgency, tone)]

\* ---- JSONAgent (src/agents/json_agent.py) ---------------------------------
schemas == {"rfq", "complaint", "fraud_risk", "webhook"}

\* Python orders the severity strings alphabetically
top_severity(severities) ==
    IF "medium" \in severities THEN "medium"
    ELSE IF "high" \in severities THEN "high"
    ELSE "critical"

\* step 5 with the minor anomalies logged to the database
json_suggestion_logs(intent, is_valid, severities) ==
    IF severities # {}
    THEN IF top_severity(severities) \in {"critical", "high"}
         THEN [action |-> "flag_for_review", target |-> "risk_team",
               reason |-> "Critical/High anomaly"]
         ELSE [action |-> "log_anomalies", target |-> "database",
               reason |-> "Minor anomalies detected"]
    ELSE IF ~is_valid
    THEN [action |-> "reject", target |-> "error_queue", reason |-> "Schema validation failed"]
    ELSE [action |-> "process_normally", target |-> intent \o "_handler",
          reason |-> "Valid data"]

\* step 5 of process (json_agent.py 159-169)
json_suggestion(intent, is_valid, severities) ==
    IF severities # {}
    THEN IF top_severity(severities) \in {"critical", "high"}
         THEN [action |-> "flag_for_review", target |-> "risk_team",
               reason |-> "Critical/High anomaly"]
         ELSE [action |-> "log_anomalies", target |-> "monitoring",
               reason |-> "Minor anomalies detected"]
    ELSE IF ~is_valid
    THEN [action |-> "reject", target |-> "error_queue", reason |-> "Schema validation failed"]
    ELSE [action |-> "process_normally", target |-> intent \o "_handler",
          reason |-> "Valid data"]

\* the anomalies step 3 can find for an intent (json_agent.py 113-131)
Anomalies(intent) ==
    IF intent = "rfq" THEN {{}, {"medium"}}
    ELSE IF intent = "fraud_risk" THEN SUBSET {"high", "critical"}
    ELSE {{}}

\* process: parse is how the parsing ended, parsed the document, validates
\* whether it fits the schema of the intent
json_process(meta, parse, parsed, validates, severities) ==
    IF parse = "ok"
    THEN LET intent == lower(GetOr(meta, "intent", "webhook"))
         IN  [source |-> "json_agent", status |-> "success", data |-> parsed,
              action_suggestion |->
                  json_suggestion(intent, intent \in schemas /\ validates, severities)]
    ELSE [source |-> "json_agent", status |-> "error", data |-> <<>>,
          action_suggestion |->
              [action |-> "reject", target |-> "error_queue",
               reason |-> IF parse = "JSONDecodeError" THEN "Invalid JSON"
                          ELSE "Processing exception"]]

\* ---- PDFAgent (src/agents/pdf_agent.py) -----------------------------------
\* _determine_action (pdf_agent.py 223-269)
_determine_action(data, intent) ==
    IF intent = "invoice"
    THEN IF GetOr(data, "invoice_total", 0) > 10000
         THEN [action |-> "flag_compliance", target |-> "risk_alert",
               reason |-> "High value invoice"]
         ELSE [action |-> "process_payment", target |-> "accounting_system",
               reason |-> "Standard invoice"]
    ELSE IF intent = "regulation"
    THEN IF GetOr(data, "policy_mentions", <<>>) # <<>>
            \/ GetOr(data, "risk_level", "low") \in {"medium", "high"}
         THEN [action |-> "flag_compliance", target |-> "risk_alert",
               reason |-> "Regulatory compliance required"]
         ELSE [action |-> "file_regulatory", target |-> "compliance_database",
               reason |-> "Standard regulatory document"]
    ELSE IF GetOr(data, "action_items", <<>>) # <<>>
    THEN [action |-> "create_tasks", target |-> "task_management",
          reason |-> "Document contains action items"]
    ELSE [action |-> "archive", target |-> "database"]

\* process: text is how the text extraction ended, data what _process_by_intent
\* returned
pdf_process(meta, text, data) ==
    IF text = "ok"
    THEN [source |-> "pdf_agent", status |-> "success", data |-> data,
          action_suggestion |->
              _determine_action(data, lower(GetOr(meta, "intent", "general")))]
    ELSE [source |-> "pdf_agent", status |-> "error", data |-> <<>>,
          action_suggestion |-> [action |-> "manual_review", target |-> "error_queue"]]

\* ---- upload (src/mcp/main.py 39-79) ----------------------------------------
\* what the files, the language models, the destination and the store can do
\* to one request; faults says whether a collaborator may raise
Inputs ==
    [filenames |-> {"order.json", "invoice.PDF", "mail.eml", "notes"},
     contents  |-> {"bytes"},
     intents   |-> {"Invoice", "RFQ", "Complaint", "Regulation", "Fraud Risk", "Unknown"},
     urgencies |-> {"high", "normal"},
     tones     |-> {"angry", "polite", "threatening", "spam"},
     parses    |-> {"ok", "JSONDecodeError", "Exception"},
     documents |-> {[product |-> "Widget A", quantity |-> 100], <<>>},
     texts     |-> {"ok", "empty"},
     extracted |-> {[invoice_total |-> 500], [invoice_total |-> 20000],
                    [policy_mentions |-> <<"GDPR">>, risk_level |-> "low"],
                    [policy_mentions |-> <<>>, risk_level |-> "low"],
                    [action_items |-> <<"reply">>],
                    [extraction_method |-> "fallback"]},
     transport |-> Transport,
     faults    |-> BOOLEAN]

\* an error response after which upload starts over
FailStartsOver(r, status_code, detail) ==
    /\ pc' = [pc EXCEPT ![r] = "classify"]
    /\ response' = [response EXCEPT ![r] =
           Some([status_code |-> status_code, detail |-> Some(detail), body |-> None])]

\* an error response that lets upload go on
FailGoesOn(r, status_code, detail) ==
    /\ pc' = pc
    /\ response' = [response EXCEPT ![r] =
           Some([status_code |-> status_code, detail |-> Some(detail), body |-> None])]

\* the request ends with an error response
Fail(r, status_code, detail) ==
    /\ pc' = [pc EXCEPT ![r] = "failed"]
    /\ response' = [response EXCEPT ![r] =
           Some([status_code |-> status_code, detail |-> Some(detail), body |-> None])]

\* a write whose failure is swallowed: upload goes on without the event
MemoryWriteSwallows(r, E, source, key, value, next) ==
    \E raises \in E.faults :
        /\ pc' = [pc EXCEPT ![r] = next]
        /\ UNCHANGED response
        /\ IF raises
           THEN /\ connected' = FALSE
                /\ trace' = [trace EXCEPT ![r].raised = Append(@, "memory")]
                /\ UNCHANGED <<log, last_write, last_read, last_close>>
           ELSE /\ write(source, key, value)
                /\ trace' = [trace EXCEPT ![r].appended = Append(@, Len(log) + 1)]

\* app.state.memory.write(...) inside upload: the event is pushed and upload
\* goes on at next, or rpush raises and the request ends with a server error
MemoryWrite(r, E, source, key, value, next) ==
    \E raises \in E.faults :
        IF raises
        THEN /\ Fail(r, 500, "Internal Server Error")
             /\ connected' = FALSE
             /\ trace' = [trace EXCEPT ![r].raised = Append(@, "memory")]
             /\ UNCHANGED <<log, last_write, last_read, last_close>>
        ELSE /\ write(source, key, value)
             /\ pc' = [pc EXCEPT ![r] = next]
             /\ trace' = [trace EXCEPT ![r].appended = Append(@, Len(log) + 1)]
             /\ UNCHANGED response

\* the request arrives and the file is read (main.py 50)
receive(r, E) ==
    /\ serving
    /\ pc[r] = "idle"
    /\ \E f \in E.filenames, b \in E.contents :
         file' = [file EXCEPT ![r] = Some([filename |-> f, raw_bytes |-> b])]
    /\ pc' = [pc EXCEPT ![r] = "classify"]
    /\ UNCHANGED <<appVars, storeVars, now, metadata, result, response, routerVars, trace>>

\* Step 1, the classifier (main.py 53)
classify(r, E) ==
    /\ pc[r] = "classify"
    /\ \E raises \in E.faults :
         IF raises
         THEN /\ Fail(r, 500, "Internal Server Error")
              /\ trace' = [trace EXCEPT ![r].raised = Append(@, "classifier"),
                                        ![r].classified = @ + 1]
              /\ UNCHANGED metadata
         ELSE /\ \E i \in E.intents :
                   metadata' = [metadata EXCEPT ![r] =
                       Some(classifier_process(file[r][1].filename, i))]
              /\ pc' = [pc EXCEPT ![r] = "write_metadata"]
              /\ trace' = [trace EXCEPT ![r].classified = @ + 1]
              /\ UNCHANGED response
    /\ UNCHANGED <<appVars, storeVars, now, file, result, routerVars>>

\* a metadata event pushed only when the format has an agent
write_metadata_if_supported(r, E) ==
    /\ pc[r] = "write_metadata"
    /\ IF GetOr(metadata[r][1], "format", "") \in {"Email", "JSON", "PDF"}
       THEN MemoryWrite(r, E, "classifier", "metadata", metadata[r][1], "dispatch")
       ELSE /\ pc' = [pc EXCEPT ![r] = "dispatch"]
            /\ UNCHANGED <<storeVars, response, trace>>
    /\ UNCHANGED <<appVars, now, file, metadata, result, routerVars>>

\* Step 1, the metadata event (main.py 54)
write_metadata(r, E) ==
    /\ pc[r] = "write_metadata"
    /\ MemoryWrite(r, E, "classifier", "metadata", metadata[r][1], "dispatch")
    /\ UNCHANGED <<appVars, now, file, metadata, result, routerVars>>

\* a selection with two agents exchanged
AgentExchanged(fmt) ==
    IF fmt = "Email" THEN Some("email_agent")
    ELSE IF fmt = "JSON" THEN Some("pdf_agent")
    ELSE IF fmt = "PDF" THEN Some("json_agent")
    ELSE None

\* the agent that the format selects (main.py 57-65)
Agent(fmt) ==
    IF fmt = "Email" THEN Some("email_agent")
    ELSE IF fmt = "JSON" THEN Some("json_agent")
    ELSE IF fmt = "PDF" THEN Some("pdf_agent")
    ELSE None

\* what process of an agent can return for the metadata
Results(agent, meta, E) ==
    IF agent = "email_agent"
    THEN {email_process(u, t) : u \in E.urgencies, t \in E.tones}
    ELSE IF agent = "json_agent"
    THEN {json_process(meta, p, d, v, a) :
              p \in E.parses, d \in E.documents, v \in BOOLEAN,
              a \in Anomalies(lower(GetOr(meta, "intent", "webhook")))}
    ELSE {pdf_process(meta, t, d) : t \in E.texts, d \in E.extracted}

\* Step 2, dispatch (main.py 57-65): the selected agent returns or raises (only
\* EmailAgent.process lets an exception out), or there is no agent
dispatch(r, E) ==
    /\ pc[r] = "dispatch"
    /\ LET meta  == metadata[r][1]
           agent == Agent(GetOr(meta, "format", ""))
       IN  IF agent = None
           THEN /\ Fail(r, 400, "Unknown format")
                /\ UNCHANGED <<result, trace>>
           ELSE /\ \E raises \in E.faults :
                     IF raises /\ agent[1] = "email_agent"
                     THEN /\ Fail(r, 500, "Internal Server Error")
                          /\ trace' = [trace EXCEPT
                                 ![r].extractors = Append(@, agent[1]),
                                 ![r].raised = Append(@, agent[1])]
                          /\ UNCHANGED result
                     ELSE /\ trace' = [trace EXCEPT ![r].extractors = Append(@, agent[1])]
                          /\ \E res \in Results(agent[1], meta, E) :
                               result' = [result EXCEPT ![r] = Some(res)]
                          /\ pc' = [pc EXCEPT ![r] = "write_extraction"]
                          /\ UNCHANGED response
    /\ UNCHANGED <<appVars, storeVars, now, file, metadata, routerVars>>

\* Step 3, the extraction event (main.py 68)
write_extraction(r, E) ==
    /\ pc[r] = "write_extraction"
    /\ MemoryWrite(r, E, result[r][1]["source"], "extraction", result[r][1]["data"], "route")
    /\ UNCHANGED <<appVars, now, file, metadata, result, routerVars>>

\* Step 4, the call of the router (main.py 71)
route(r) ==
    /\ pc[r] = "route"
    /\ decide_and_execute(r, result[r][1]["action_suggestion"])
    /\ UNCHANGED <<appVars, storeVars, now, uploadVars>>

\* an action event that carries the suggestion routed
write_action_suggestion(r, E) ==
    /\ pc[r] = "returned"
    /\ MemoryWrite(r, E, "router", "action", result[r][1]["action_suggestion"], "respond")
    /\ UNCHANGED <<appVars, now, file, metadata, result, routerVars>>

\* Step 4, the action event (main.py 72)
write_action(r, E) ==
    /\ pc[r] = "returned"
    /\ MemoryWrite(r, E, "router", "action", action_outcome[r][1], "respond")
    /\ UNCHANGED <<appVars, now, file, metadata, result, routerVars>>

\* a response with the whole result of the extractor as extraction
respond_with_result(r) ==
    /\ pc[r] = "respond"
    /\ response' = [response EXCEPT ![r] =
           Some([status_code |-> 200, detail |-> None,
                 body |-> Some([metadata   |-> metadata[r][1],
                                extraction |-> result[r][1],
                                action     |-> action_outcome[r][1]])])]
    /\ pc' = [pc EXCEPT ![r] = "done"]
    /\ UNCHANGED <<appVars, storeVars, now, file, metadata, result, routerVars, trace>>

\* Step 5, the response (main.py 75-79)
respond(r) ==
    /\ pc[r] = "respond"
    /\ response' = [response EXCEPT ![r] =
           Some([status_code |-> 200, detail |-> None,
                 body |-> Some([metadata   |-> metadata[r][1],
                                extraction |-> result[r][1]["data"],
                                action     |-> action_outcome[r][1]])])]
    /\ pc' = [pc EXCEPT ![r] = "done"]
    /\ UNCHANGED <<appVars, storeVars, now, file, metadata, result, routerVars, trace>>

\* the second half of lifespan (main.py 23-29), run by the server when it stops
\* and no request is in flight: memory.close() in a try, and nothing else
lifespan_shutdown ==
    /\ serving
    /\ \A r \in Requests : pc[r] \in {"idle", "done", "failed"}
    /\ serving' = FALSE
    /\ Closing
    /\ UNCHANGED <<client, now, pc, uploadVars, routerVars, trace>>

\* ---- Spec: one upload ---------------------------------------------------------
Next ==
    \/ Tick
    \/ receive(1, Inputs)
    \/ classify(1, Inputs)
    \/ write_metadata(1, Inputs)
    \/ dispatch(1, Inputs)
    \/ write_extraction(1, Inputs)
    \/ route(1)
    \/ post(1, Inputs)
    \/ backoff(1)
    \/ write_action(1, Inputs)
    \/ respond(1)
    \/ lifespan_shutdown

Spec == Init /\ [][Next]_vars

\* ---- ConcSpec: concurrent uploads over one store ---------------------------
\* two kinds of file, no collaborator raises and the destination answers well
\* (so no request sleeps: the retries are the subject of Spec and RouterSpec)
Lean ==
    [filenames |-> {"mail.eml", "notes"},
     contents  |-> {"bytes"},
     intents   |-> {"Complaint"},
     urgencies |-> {"high", "normal"},
     tones     |-> {"polite"},
     parses    |-> {"ok"},
     documents |-> {<<>>},
     texts     |-> {"ok"},
     extracted |-> {[extraction_method |-> "fallback"]},
     transport |-> {[kind |-> "response", status_code |-> 200, parseable |-> TRUE]},
     faults    |-> {FALSE}]

ConcNext ==
    \E r \in Requests :
        \/ receive(r, Lean)
        \/ classify(r, Lean)
        \/ write_metadata(r, Lean)
        \/ dispatch(r, Lean)
        \/ write_extraction(r, Lean)
        \/ route(r)
        \/ post(r, Lean)
        \/ write_action(r, Lean)
        \/ respond(r)

ConcSpec == Init /\ [][ConcNext]_vars

\* ---- JsonSpec: the JSON extractor in upload and called directly ------------
\* uploads of a JSON file
JsonUploads ==
    [filenames |-> {"order.json"},
     contents  |-> {"bytes"},
     intents   |-> Inputs.intents,
     parses    |-> Inputs.parses,
     documents |-> Inputs.documents,
     faults    |-> BOOLEAN]

\* the metadata a caller of JSONAgent.process can pass: an intent with a
\* schema, in any case, another one, or none
JsonMetadata ==
    {[format |-> "JSON", intent |-> i] : i \in schemas \cup {"Fraud_Risk", "Unknown"}}
    \cup {[format |-> "JSON"]}

\* JSONAgent.process(json_data, metadata) called directly (json_agent.py
\* 77-229) by a caller that passes the suggestion to the router next
json_agent_process(r, E) ==
    /\ pc[r] = "idle"
    /\ trace[r].routes < MaxCalls
    /\ \E meta \in JsonMetadata :
         /\ metadata' = [metadata EXCEPT ![r] = Some(meta)]
         /\ \E res \in Results("json_agent", meta, E) :
              result' = [result EXCEPT ![r] = Some(res)]
    /\ pc' = [pc EXCEPT ![r] = "route"]
    /\ trace' = [trace EXCEPT ![r].extractors = <<"json_agent">>]
    /\ UNCHANGED <<appVars, storeVars, now, file, response, routerVars>>

JsonNext ==
    \/ receive(1, JsonUploads)
    \/ classify(1, JsonUploads)
    \/ write_metadata(1, JsonUploads)
    \/ dispatch(1, JsonUploads)
    \/ write_extraction(1, JsonUploads)
    \/ route(1)
    \/ write_action(1, JsonUploads)
    \/ respond(1)
    \/ json_agent_process(NumRequests, JsonUploads)
    \/ route(NumRequests)
    \/ Return(NumRequests)

JsonSpec == Init /\ [][JsonNext]_vars

\* ---- AuditSpec: uploads and the audit endpoints by action ------------------
\* uploads whose routing POSTs with success, archives, or finds no target
Audited ==
    [filenames |-> {"mail.eml", "order.json"},
     contents  |-> {"bytes"},
     intents   |-> {"Complaint"},
     urgencies |-> {"high", "normal"},
     tones     |-> {"polite"},
     parses    |-> {"ok"},
     documents |-> {<<>>},
     transport |-> {[kind |-> "response", status_code |-> 200, parseable |-> TRUE]},
     faults    |-> {FALSE}]

AuditNext ==
    \/ \E r \in {1, NumRequests} :
           \/ receive(r, Audited)
           \/ classify(r, Audited)
           \/ write_metadata(r, Audited)
           \/ dispatch(r, Audited)
           \/ write_extraction(r, Audited)
           \/ route(r)
           \/ post(r, Audited)
           \/ write_action(r, Audited)
           \/ respond(r)
    \/ AuditStore
    \/ AuditAlert
    \/ AuditEscalate
    \/ AuditLog

AuditSpec == Init /\ [][AuditNext]_vars

\* ---- ClassifySpec: the classifier over names and contents -------------------
\* files with every extension the classifier knows, in both cases, with two
\* extensions, one that is not known, an empty one and none, each with two
\* contents, and a classifier that finds any of two intents
Named ==
    [filenames |-> {"order.json", "ORDER.JSON", "scan.json.PDF", "mail.eml", "a.txt",
                    "m.Email", "photo.png", "report.pdf.", "json", "notes"},
     contents  |-> {"bytes", "other bytes"},
     intents   |-> {"Invoice", "Unknown"},
     faults    |-> {FALSE}]

ClassifyNext ==
    \E r \in Requests :
        \/ receive(r, Named)
        \/ classify(r, Named)

ClassifySpec == Init /\ [][ClassifyNext]_vars

\* ---- ClockSpec: concurrent uploads while time passes ------------------------
\* files of no supported format: a request pushes its metadata event and ends
Rejected ==
    [filenames |-> {"notes", "photo.png"},
     contents  |-> {"bytes"},
     intents   |-> {"Unknown"},
     faults    |-> {FALSE}]

ClockNext ==
    \/ Tick
    \/ \E r \in Requests :
           \/ receive(r, Rejected)
           \/ classify(r, Rejected)
           \/ write_metadata(r, Rejected)
           \/ dispatch(r, Rejected)

ClockSpec == Init /\ [][ClockNext]_vars

\* ---- properties of upload ----------------------------------------------------
\* the events a request pushed, as read_all returns them now
Appended(r) == [i \in DOMAIN trace[r].appended |-> read_all(log)[trace[r].appended[i]]]

Unsupported(r) ==
    metadata[r] # None /\ GetOr(metadata[r][1], "format", "") \notin {"Email", "JSON", "PDF"}

\* C5: a request whose classifier result has a format outside Email, JSON and
\* PDF never completes; when it has failed it failed with status 400; no
\* extractor and no router call was made for it and it pushed no event with
\* key "extraction" or "action".
C5_UnsupportedFormat ==
    \A r \in Requests :
        Unsupported(r)
            => /\ pc[r] # "done"
               /\ pc[r] = "failed" => response[r][1].status_code = 400
               /\ trace[r].extractors = <<>>
               /\ trace[r].routes = 0
               /\ \A i \in DOMAIN Appended(r) :
                      Appended(r)[i].key \notin {"extraction", "action"}

\* C6: when a request has returned its response, it has pushed exactly three
\* events, at increasing positions of the list, and read_all returns at these
\* positions classifier/metadata, <source of the extractor>/extraction and
\* router/action.
C6_ThreeEvents ==
    \A r \in Requests :
        pc[r] = "done"
            => /\ response[r] # None
               /\ response[r][1].status_code = 200
               /\ Len(trace[r].appended) = 3
               /\ trace[r].appended[1] < trace[r].appended[2]
               /\ trace[r].appended[2] < trace[r].appended[3]
               /\ trace[r].appended[3] <= Len(read_all(log))
               /\ Appended(r)[1].source = "classifier"
               /\ Appended(r)[1].key = "metadata"
               /\ Appended(r)[2].source = result[r][1]["source"]
               /\ Appended(r)[2].source \in {"email_agent", "json_agent", "pdf_agent"}
               /\ Appended(r)[2].key = "extraction"
               /\ Appended(r)[3].source = "router"
               /\ Appended(r)[3].key = "action"

C6_Witness ==
    \E r \in Requests :
        /\ pc[r] = "done"
        /\ Len(read_all(log)) = 3
        /\ read_all(log)[2].source = "pdf_agent"
        /\ read_all(log)[3].value.status = "success"

RoutingFailed(r) == action_outcome[r] # None /\ action_outcome[r][1].status = "error"

\* C10: a request whose routing returned status "error" does not fail: when it
\* has ended, it has pushed the router/action event with that outcome and
\* returned a 200 response whose action has status "error".
C10_RoutingFailure ==
    \A r \in Requests :
        (RoutingFailed(r) /\ pc[r] \in {"done", "failed"})
            => /\ pc[r] = "done"
               /\ response[r][1].status_code = 200
               /\ response[r][1].body[1].action.status = "error"
               /\ Len(trace[r].appended) = 3
               /\ Appended(r)[3].source = "router"
               /\ Appended(r)[3].key = "action"
               /\ Appended(r)[3].value = action_outcome[r][1]

Raised(r, who) == \E i \in DOMAIN trace[r].raised : trace[r].raised[i] \in who

\* C11: a request during which an append to the store raised does not fail:
\* it is never in its failed state, and a response it has returned is the 200
\* response.
C11_LogWriteFailure ==
    \A r \in Requests :
        Raised(r, {"memory"})
            => /\ pc[r] # "failed"
               /\ response[r] # None => response[r][1].status_code = 200

\* the selected extractor raised, or returned a result with status "error"
ExtractorFailed(r) ==
    \/ Raised(r, {"email_agent", "json_agent", "pdf_agent"})
    \/ result[r] # None /\ Get(result[r][1], "status") = Some("error")

\* C12: a request whose extractor raised or returned an error never completes;
\* when it has failed it failed with status 500; it pushed no event with key
\* "extraction" and made no router call.
C12_ExtractorError ==
    \A r \in Requests :
        ExtractorFailed(r)
            => /\ pc[r] # "done"
               /\ pc[r] = "failed" => response[r][1].status_code = 500
               /\ trace[r].routes = 0
               /\ \A i \in DOMAIN Appended(r) : Appended(r)[i].key # "extraction"

\* the stage of the request that a position in upload belongs to
Stage(p) ==
    IF p = "idle" THEN "Idle"
    ELSE IF p = "classify" THEN "Received"
    ELSE IF p \in {"write_metadata", "dispatch"} THEN "Classified"
    ELSE IF p \in {"write_extraction", "route", "post", "sleep"} THEN "Extracted"
    ELSE IF p \in {"returned", "respond"} THEN "Routed"
    ELSE IF p = "done" THEN "Completed"
    ELSE "Failed"

Stages == <<"Idle", "Received", "Classified", "Extracted", "Routed", "Completed">>

Rank(stage) == CHOOSE i \in DOMAIN Stages : Stages[i] = stage

\* an exception left a collaborator or upload raised its HTTPException
FailureIn(r) ==
    \/ trace'[r].raised # trace[r].raised
    \/ response'[r] # response[r] /\ response'[r][1].status_code # 200

WellFormed(r) == result[r] # None /\ GetOr(result[r][1], "status", "success") = "success"

\* C17: the response of a completed request whose extractor found its payload
\* well-formed has the format of that extractor (Email, JSON or PDF) in
\* metadata.format and an extraction that is not empty.
C17_WellFormedPayload ==
    \A r \in Requests :
        (WellFormed(r) /\ pc[r] = "done")
            => LET body == response[r][1].body[1]
               IN  /\ body.metadata.format \in {"Email", "JSON", "PDF"}
                   /\ Agent(body.metadata.format) = Some(result[r][1]["source"])
                   /\ DOMAIN body.extraction # {}

\* C18: once the second half of lifespan has run, the router's client is closed.
C18_ShutdownAtTeardown == ~serving => client = "closed"

\* upload is past the dispatch and has not failed
Dispatched(r) ==
    pc[r] \in {"write_extraction", "route", "post", "sleep", "returned", "respond", "done"}

\* C23: a request calls the classifier once (and has called it once as soon as
\* it is past that step), calls at most one extractor and that one at most
\* once, calls decide_and_execute at most once, and so causes at most
\* max_retries + 1 = 3 POSTs; nothing is called before the step before it.
C23_NoStageRetried ==
    \A r \in Requests :
        /\ trace[r].classified <= 1
        /\ pc[r] \notin {"idle", "classify"} => trace[r].classified = 1
        /\ Len(trace[r].extractors) <= 1
        /\ trace[r].routes <= 1
        /\ trace[r].posts <= max_retries + 1
        /\ trace[r].posts <= 3
        /\ trace[r].classified = 0 => trace[r].extractors = <<>>
        /\ trace[r].extractors = <<>> => trace[r].routes = 0
        /\ trace[r].routes = 0 => trace[r].posts = 0

\* a completed request that made three POSTs
C23_Witness ==
    \E r \in Requests :
        /\ pc[r] = "done"
        /\ trace[r].classified = 1
        /\ Len(trace[r].extractors) = 1
        /\ trace[r].routes = 1
        /\ trace[r].posts = max_retries + 1

\* C26: the extractor a request calls is the one of the format in its
\* metadata (Email: email_agent, JSON: json_agent, PDF: pdf_agent, no other);
\* a request past the dispatch has called exactly one; and its result and the
\* extraction event it pushed carry the source of that extractor.
C26_ExtractorByFormat ==
    \A r \in Requests :
        /\ trace[r].extractors # <<>>
               => /\ metadata[r] # None
                  /\ Len(trace[r].extractors) = 1
                  /\ \/ metadata[r][1].format = "Email" /\ trace[r].extractors[1] = "email_agent"
                     \/ metadata[r][1].format = "JSON" /\ trace[r].extractors[1] = "json_agent"
                     \/ metadata[r][1].format = "PDF" /\ trace[r].extractors[1] = "pdf_agent"
        /\ Dispatched(r) => Len(trace[r].extractors) = 1
        /\ result[r] # None
               => /\ trace[r].extractors # <<>>
                  /\ result[r][1]["source"] = trace[r].extractors[1]
        /\ \A i \in DOMAIN Appended(r) :
               Appended(r)[i].key = "extraction"
                   => /\ trace[r].extractors # <<>>
                      /\ Appended(r)[i].source = trace[r].extractors[1]

\* the upload of invoice.PDF completed with an extraction event of pdf_agent
C26_Witness ==
    \E r \in Requests :
        /\ pc[r] = "done"
        /\ file[r][1].filename = "invoice.PDF"
        /\ trace[r].extractors = <<"pdf_agent">>
        /\ Appended(r)[2].source = "pdf_agent"
        /\ Appended(r)[2].key = "extraction"

\* C27: the metadata, the extraction and the action in the response of a
\* completed request are the values of the events with key "metadata",
\* "extraction" and "action" that the request pushed, as read_all returns them.
C27_ResponseIsLog ==
    \A r \in Requests :
        pc[r] = "done"
            => /\ Len(trace[r].appended) = 3
               /\ Appended(r)[1].key = "metadata"
               /\ Appended(r)[1].value = response[r][1].body[1].metadata
               /\ Appended(r)[2].key = "extraction"
               /\ Appended(r)[2].value = response[r][1].body[1].extraction
               /\ Appended(r)[3].key = "action"
               /\ Appended(r)[3].value = response[r][1].body[1].action

\* a completed upload of a JSON document whose routing failed
C27_Witness ==
    \E r \in Requests :
        /\ pc[r] = "done"
        /\ response[r][1].body[1].extraction = [product |-> "Widget A", quantity |-> 100]
        /\ response[r][1].body[1].action.status = "error"
        /\ response[r][1].body[1].metadata.intent = "RFQ"

\* the number of events the requests of a set pushed
RECURSIVE Appends(_)
Appends(rs) ==
    IF rs = {} THEN 0
    ELSE LET r == CHOOSE x \in rs : TRUE
         IN  Len(trace[r].appended) + Appends(rs \ {r})

\* C22: with any number of uploads interleaved, the list holds as many events
\* as the requests pushed; every push of a request has its own position in
\* the list; the positions of one request increase in the order of its pushes;
\* and the events at them are its metadata, then its extraction, then its
\* action, with the values of that request.
C22_Concurrent ==
    /\ Len(log) = Appends(Requests)
    /\ Len(read_all(log)) = Appends(Requests)
    /\ \A r \in Requests :
           /\ Len(trace[r].appended) <= 3
           /\ \A i \in DOMAIN trace[r].appended : trace[r].appended[i] \in 1 .. Len(log)
           /\ \A i, j \in DOMAIN trace[r].appended :
                  i < j => trace[r].appended[i] < trace[r].appended[j]
           /\ \A q \in Requests \ {r} :
                  \A i \in DOMAIN trace[r].appended, j \in DOMAIN trace[q].appended :
                      trace[r].appended[i] # trace[q].appended[j]
           /\ Len(trace[r].appended) >= 1
                  => /\ Appended(r)[1].key = "metadata"
                     /\ Appended(r)[1].value = metadata[r][1]
           /\ Len(trace[r].appended) >= 2
                  => /\ Appended(r)[2].key = "extraction"
                     /\ Appended(r)[2].source = result[r][1]["source"]
                     /\ Appended(r)[2].value = result[r][1]["data"]
           /\ Len(trace[r].appended) >= 3
                  => /\ Appended(r)[3].key = "action"
                     /\ Appended(r)[3].value = action_outcome[r][1]

\* two completed requests whose events alternate in the list
C22_Witness ==
    \E r, q \in Requests :
        /\ pc[r] = "done" /\ pc[q] = "done"
        /\ trace[r].appended = <<1, 3, 5>>
        /\ trace[q].appended = <<2, 4, 6>>
        /\ action_outcome[r][1].target # action_outcome[q][1].target

\* C28: the timestamps of the events are non-decreasing in the order of the
\* list and none is later than the clock, with several uploads in flight and
\* the clock advancing between any two of their steps.
C28_Timestamps ==
    /\ \A i, j \in DOMAIN read_all(log) :
           i < j => read_all(log)[i].timestamp <= read_all(log)[j].timestamp
    /\ \A i \in DOMAIN read_all(log) : read_all(log)[i].timestamp <= now

\* the request that arrived second pushed first, and the clock advanced
\* between the two pushes
C28_Witness ==
    \E r, q \in Requests :
        /\ r < q
        /\ trace[q].appended = <<1>>
        /\ trace[r].appended = <<2>>
        /\ read_all(log)[1].timestamp < read_all(log)[2].timestamp

\* the request failed with the HTTPException for an unknown format
UnsupportedFormat(r) ==
    /\ pc[r] = "failed"
    /\ response[r] # None
    /\ response[r][1].status_code = 400
    /\ response[r][1].detail = Some("Unknown format")

EmailResult(r) == result[r] # None /\ result[r][1]["source"] = "email_agent"

\* the email extractor found the mail urgent or angry
Escalates(r) == result[r][1]["data"].urgency = "high" \/ result[r][1]["data"].tone = "angry"

\* C36: the email extractor suggests action escalate with target crm exactly
\* when the urgency is high or the tone is angry, and action log with target
\* database otherwise; a request with such a result POSTs to /crm only; once
\* its routing has returned it has made at least one POST in the first case
\* and none in the second, where the outcome is the archive's success.
C36_EmailEscalation ==
    \A r \in Requests :
        EmailResult(r)
            => /\ metadata[r][1].format = "Email"
               /\ Escalates(r)
                      => result[r][1]["action_suggestion"] = [action |-> "escalate", target |-> "crm"]
               /\ ~Escalates(r)
                      => result[r][1]["action_suggestion"] = [action |-> "log", target |-> "database"]
               /\ trace[r].posted \subseteq {"/crm"}
               /\ ~Escalates(r) => /\ trace[r].posts = 0
                                   /\ pc[r] \notin {"post", "sleep"}
               /\ action_outcome[r] # None
                      => /\ Escalates(r) <=> trace[r].posts >= 1
                         /\ Escalates(r) => /\ trace[r].posted = {"/crm"}
                                             /\ action_outcome[r][1].target = Some("crm")
                         /\ ~Escalates(r) => /\ action_outcome[r][1].status = "success"
                                              /\ action_outcome[r][1].target = Some("database")
                                              /\ action_outcome[r][1].http_status = None

\* a mail that is angry and not urgent was POSTed to /crm, which answered
\* the second attempt
C36_Witness ==
    \E r \in Requests :
        /\ pc[r] = "done"
        /\ EmailResult(r)
        /\ result[r][1]["data"] = [urgency |-> "normal", tone |-> "angry"]
        /\ trace[r].posted = {"/crm"}
        /\ trace[r].posts = 2
        /\ response[r][1].body[1].action.status = "success"

\* the format that goes with the extension of a file name
FormatOf(filename) ==
    IF filename \in {"order.json", "ORDER.JSON"} THEN "JSON"
    ELSE IF filename \in {"scan.json.PDF", "invoice.PDF"} THEN "PDF"
    ELSE IF filename \in {"mail.eml", "a.txt", "m.Email"} THEN "Email"
    ELSE "Unknown"

\* C35: the format in the classifier's result is the one of the last
\* extension of the file name, in any case: json gives JSON, pdf gives PDF,
\* eml, txt and email give Email, and any other extension, an empty one or
\* none gives Unknown; and two requests with the same file name have the same
\* format, whatever their contents and the intents found in them.
C35_FormatByFilename ==
    /\ \A r \in Requests :
           metadata[r] # None
               => /\ metadata[r][1].format = FormatOf(file[r][1].filename)
                  /\ metadata[r][1].format \in {"JSON", "PDF", "Email", "Unknown"}
    /\ \A r, q \in Requests :
           (metadata[r] # None /\ metadata[q] # None
            /\ file[r][1].filename = file[q][1].filename)
               => metadata[r][1].format = metadata[q][1].format

\* two uploads named scan.json.PDF with different contents and intents, both
\* of format PDF
C35_Witness ==
    \E r, q \in Requests :
        /\ metadata[r] # None /\ metadata[q] # None
        /\ file[r][1].filename = "scan.json.PDF"
        /\ file[q][1].filename = "scan.json.PDF"
        /\ file[r][1].raw_bytes # file[q][1].raw_bytes
        /\ metadata[r][1].intent # metadata[q][1].intent
        /\ metadata[r][1].format = "PDF"
        /\ metadata[q][1].format = "PDF"

\* the classifier gave the request the format JSON
JsonFormat(r) == metadata[r] # None /\ GetOr(metadata[r][1], "format", "") = "JSON"

\* the targets JSONAgent.process suggests for an intent
JsonTargets(intent) == {"risk_team", "monitoring", "error_queue", intent \o "_handler"}

\* C32: a result of the JSON extractor, whatever metadata and document it was
\* given, suggests a target among risk_team, monitoring, error_queue and
\* <intent>_handler; a request of format JSON, and a caller that passes such
\* a result to the router, never POSTs; the outcome of the routing has status
\* "error", the error "Unknown target: <target>" and no http_status; and the
\* response of such a request that completed carries that outcome.
C32_JsonUnroutable ==
    \A r \in Requests :
        JsonFormat(r)
            => /\ trace[r].posts = 0
               /\ trace[r].posted = {}
               /\ pc[r] \notin {"post", "sleep"}
               /\ result[r] # None
                      => /\ result[r][1]["source"] = "json_agent"
                         /\ result[r][1]["action_suggestion"].target
                                \in JsonTargets(lower(GetOr(metadata[r][1], "intent", "webhook")))
               /\ (action_outcome[r] # None /\ pc[r] # "route")
                      => /\ action_outcome[r][1].status = "error"
                         /\ action_outcome[r][1].error =
                                Some("Unknown target: "
                                     \o result[r][1]["action_suggestion"].target)
                         /\ action_outcome[r][1].http_status = None
               /\ pc[r] = "done"
                      => /\ response[r][1].status_code = 200
                         /\ response[r][1].body[1].action = action_outcome[r][1]
                         /\ response[r][1].body[1].action.status = "error"

\* the upload of order.json with a valid RFQ completed with an outcome for
\* the unknown target rfq_handler, and the router answered a caller that
\* passed it the suggestion for a critical anomaly
C32_Witness ==
    /\ pc[1] = "done"
    /\ JsonFormat(1)
    /\ file[1][1].filename = "order.json"
    /\ result[1][1]["action_suggestion"].action = "process_normally"
    /\ response[1][1].body[1].action.error = Some("Unknown target: rfq_handler")
    /\ trace[1].posts = 0
    /\ pc[NumRequests] = "returned"
    /\ result[NumRequests][1]["action_suggestion"].action = "flag_for_review"
    /\ action_outcome[NumRequests][1].error = Some("Unknown target: risk_team")

\* ---- properties of the audit endpoints -----------------------------------------
\* the events of a sequence whose value has the action kind, in their order
RECURSIVE OfKind(_, _)
OfKind(events, kind) ==
    IF events = <<>> THEN <<>>
    ELSE IF "action" \in DOMAIN Head(events).value /\ Head(events).value.action = kind
         THEN <<Head(events)>> \o OfKind(Tail(events), kind)
         ELSE OfKind(Tail(events), kind)

Fresh == last_read # None /\ last_read[1].n = IF last_write = None THEN 0 ELSE last_write[1].n

\* C16: in every state of the store, GET /audit is read_all restricted to the
\* events with key "action", in append order, and GET /audit/store, /alert,
\* /escalate and /log are GET /audit restricted to the events whose value has
\* that action; and so is what a request to them returned.
C16_Audit ==
    /\ audit(log) = Restricted(read_all(log), "key", "action")
    /\ audit_store(log) = OfKind(audit(log), "store")
    /\ audit_alert(log) = OfKind(audit(log), "alert")
    /\ audit_escalate(log) = OfKind(audit(log), "escalate")
    /\ audit_log(log) = OfKind(audit(log), "log")
    /\ (Fresh /\ last_read[1].op = "audit")
           => last_read[1].result = Restricted(read_all(log), "key", "action")
    /\ (Fresh /\ last_read[1].op = "audit_kind")
           => last_read[1].result =
                  OfKind(Restricted(read_all(log), "key", "action"), last_read[1].arg)

\* GET /audit/escalate returned one of the two events of /audit, and the list
\* holds an event of another key with the action escalate
C16_Witness ==
    /\ Fresh
    /\ last_read[1].op = "audit_kind"
    /\ last_read[1].arg = "escalate"
    /\ Len(last_read[1].result) = 1
    /\ Len(audit(log)) = 2
    /\ Len(log) = 3
    /\ read_all(log)[1].key = "metadata"
    /\ read_all(log)[1].value = [action |-> "escalate"]

\* C33: every event with key "action" that the uploads pushed has the source
\* router and as value a dict with the fields status, target, http_status,
\* response_body and error and no field action; so GET /audit/store, /alert,
\* /escalate and /log select no event in any state of the store, and every
\* request to one of them returned the empty list.
C33_AuditKindsEmpty ==
    /\ \A i \in DOMAIN read_all(log) :
           read_all(log)[i].key = "action"
               => /\ read_all(log)[i].source = "router"
                  /\ DOMAIN read_all(log)[i].value
                         = {"status", "target", "http_status", "response_body", "error"}
                  /\ Get(read_all(log)[i].value, "action") = None
    /\ audit_store(log) = <<>>
    /\ audit_alert(log) = <<>>
    /\ audit_escalate(log) = <<>>
    /\ audit_log(log) = <<>>
    /\ (last_read # None /\ last_read[1].op = "audit_kind") => last_read[1].result = <<>>

\* GET /audit/escalate returned nothing after an upload whose action escalate
\* was POSTed to /crm with success and one whose action log was archived
C33_Witness ==
    /\ Fresh
    /\ last_read[1].op = "audit_kind"
    /\ last_read[1].arg = "escalate"
    /\ last_read[1].result = <<>>
    /\ Len(audit(log)) = 2
    /\ \E r, q \in Requests :
           /\ pc[r] = "done" /\ pc[q] = "done"
           /\ suggestion[r][1].action = "escalate"
           /\ action_outcome[r][1].status = "success"
           /\ trace[r].posts > 0
           /\ suggestion[q][1].action = "log"

\* ---- properties of close ------------------------------------------------------
\* C19: close() never raises, whether client.close() raised or not; a step in
\* which close() is called leaves the list as it is; a close() of a store that
\* is closed already changes nothing; and closing again after a close() that
\* went well gives what the one close() gave.
C19_Close ==
    [][/\ last_close' # None => ~last_close'[1].raises
       /\ last_close' # last_close
              => /\ log' = log
                 /\ read_all(log') = read_all(log)
                 /\ ~connected => ~connected'
       /\ \A conn \in BOOLEAN, raised \in BOOLEAN :
              /\ ~close(conn, raised).raises
              /\ close(close(conn, FALSE).connected, raised).connected
                     = close(conn, FALSE).connected]_vars

\* client.close() raised in the last close() of a store that holds events
C19_Witness ==
    /\ last_close # None
    /\ last_close[1].client_raised
    /\ ~last_close[1].raises
    /\ Len(log) >= 2
    /\ connected

====
